---- MODULE Spec2Model ----
(***************************************************************************)
(* qBraid Chat: the session controller of the VS Code side-panel chat      *)
(* client (activate, ChatViewProvider, fetchModels, getApiKey) together    *)
(* with the script of the chat webview (sendMessage, clearHistory, the     *)
(* window message listener).                                               *)
(*                                                                         *)
(* Strings are sequences of one-character strings, so that trim(), slice() *)
(* and length are computed as the code computes them.  The JavaScript      *)
(* value undefined is the one-element sequence Undefined.                  *)
(***************************************************************************)
EXTENDS Integers, Sequences, FiniteSets, TLC

\* ------------------------------------------------------------------ bounds
MaxUserActions == 3   \* panel shows, commands and clicks of the user in one run

\* ------------------------------------------------------------------ values
Undefined == <<"undefined">>

Min(a, b) == IF a < b THEN a ELSE b

\* JavaScript truthiness of a string-or-undefined value
Truthy(s) == s # Undefined /\ s # <<>>

\* String.prototype.trim
RECURSIVE TrimStart(_)
TrimStart(s) == IF s # <<>> /\ Head(s) = " " THEN TrimStart(Tail(s)) ELSE s

RECURSIVE TrimEnd(_)
TrimEnd(s) ==
    IF s # <<>> /\ s[Len(s)] = " " THEN TrimEnd(SubSeq(s, 1, Len(s) - 1)) ELSE s

Trim(s) == TrimEnd(TrimStart(s))

\* values the settings store may hold under "qbraid-chat.apiKey"
StoredValues == {Undefined, <<>>, <<" ">>, <<"a">>, <<" ", "b">>}

\* what the user may leave in the key input box (Undefined = dismissed)
InputBoxAnswers == {Undefined, <<>>, <<" ">>, <<"a">>, <<" ", "b">>}

\* what the user may have typed into the message box when pressing send
TypedInputs == {<<>>, <<" ">>, <<"q">>, <<" ", "r">>}

\* bodies of a 200 answer of GET /chat/models
ModelLists == {<<>>, <<"m1">>}

\* content field of a 200 answer of POST /chat; Undefined = no content field
ReplyContents == {<<"c">>, Undefined}

\* ------------------------------------------------------------------ getApiKey
GetApiKeyRaw(cfg) == cfg

GetApiKeyUntrimmed(cfg) ==
    IF ~Truthy(cfg) \/ Trim(cfg) = <<>> THEN Undefined ELSE cfg

GetApiKey(cfg) ==
    IF ~Truthy(cfg) \/ Trim(cfg) = <<>> THEN Undefined ELSE Trim(cfg)


\* ------------------------------------------------------------------ remote answers
\* an answer of GET /chat/models: status 0 = no response (network error)
ListAnswers ==
    {[status |-> 200, isArray |-> TRUE, data |-> ms] : ms \in ModelLists}
    \cup {[status |-> 200, isArray |-> FALSE, data |-> <<>>]}
    \cup {[status |-> s, isArray |-> FALSE, data |-> <<>>] : s \in {401, 500, 0}}

\* an answer of POST /chat
ChatAnswers ==
    {[status |-> 200, content |-> c] : c \in ReplyContents}
    \cup {[status |-> s, content |-> Undefined] : s \in {401, 500, 0}}

\* the error axios rejects with: error.response exists iff the server answered
AxiosError(status) ==
    IF status = 0
    THEN [message |-> <<"Network Error">>, hasResponse |-> FALSE, status |-> 0]
    ELSE [message |-> <<"Request failed with status code", ToString(status)>>,
          hasResponse |-> TRUE, status |-> status]

\* new Error(text): a plain Error carries no response
PlainError(text) == [message |-> <<text>>, hasResponse |-> FALSE, status |-> 0]

\* fetchModels, the guard on its argument
FetchModelsRejectsKey(apiKey) == ~Truthy(apiKey) \/ Trim(apiKey) = <<>>

\* fetchModels, after the GET settled: response.data, or the error it throws
FetchModels(answer) ==
    IF answer.status = 200
    THEN [ok |-> TRUE, isArray |-> answer.isArray, data |-> answer.data,
          error |-> PlainError("")]
    ELSE IF AxiosError(answer.status).hasResponse /\ answer.status = 401
    THEN [ok |-> FALSE, isArray |-> FALSE, data |-> <<>>,
          error |-> PlainError("Authentication failed: Invalid or expired API key")]
    ELSE [ok |-> FALSE, isArray |-> FALSE, data |-> <<>>,
          error |-> AxiosError(answer.status)]

\* ------------------------------------------------------------------ views
\* webview.html before anything was assigned to it
BlankHtml == [kind |-> "blank", models |-> <<>>]

\* getNoApiKeyContent: the welcome page with the "Set API Key" button
GetNoApiKeyContent == [kind |-> "onboarding", models |-> <<>>]

\* getWebviewContent(models): the chat page, one <option> per model
GetWebviewContentDropsFirst(models) ==
    [kind |-> "chat", models |-> IF models = <<>> THEN <<>> ELSE Tail(models)]

GetWebviewContent(models) == [kind |-> "chat", models |-> models]

\* ------------------------------------------------------------------ notifications
AuthFailedNote ==
    [kind |-> "error",
     text |-> <<"Authentication failed: Your qBraid API key appears to be invalid or expired.">>,
     items |-> <<"Update API Key">>]

InitFailedNote(error) ==
    [kind |-> "error", text |-> <<"Failed to initialize chat: ">> \o error.message,
     items |-> <<>>]

SavedNote == [kind |-> "info", text |-> <<"API Key saved successfully">>, items |-> <<>>]

RemovedNote == [kind |-> "info", text |-> <<"API Key removed successfully">>, items |-> <<>>]

\* ------------------------------------------------------------------ listeners
\* what onDidReceiveMessage holds: setupBasicMessageHandlers registers the
\* first kind, setupMessageHandlers(apiKey) the second
BasicListener == [kind |-> "basic", apiKey |-> Undefined]

FullListener(apiKey) == [kind |-> "full", apiKey |-> apiKey]

\* ------------------------------------------------------------------ state
VARIABLES
    config,        \* settings store, "qbraid-chat.apiKey"
    html,          \* this._view.webview.html (BlankHtml while no view or unset)
    listeners,     \* listeners registered on the current webview, oldest first
    chatHistory,   \* this._chatHistory
    fetches,       \* initializeWebview calls suspended at await fetchModels
    calls,         \* handleUserMessage calls suspended at await axios.post
    prompts,       \* setApiKey command executions suspended at showInputBox
    inbox,         \* view -> host messages posted and not yet handled
    outbox,        \* host -> view messages posted and not yet handled
    isProcessing,  \* chat page: the input lock
    shown,         \* chat page: children of #chat-container
    used,          \* user actions so far: shows, sends, clears, key commands
    notes,         \* notifications raised by the last step
    last,          \* the last step taken
    orderly        \* every send so far followed the previous reply, every reply was a 200

vars == <<config, html, listeners, chatHistory, fetches, calls, prompts, inbox,
          outbox, isProcessing, shown, used, notes, last, orderly>>

\* this._view is set once resolveWebviewView ran
HasView == used.shows > 0

Range(q) == {q[i] : i \in 1..Len(q)}

RemoveAt(q, i) == SubSeq(q, 1, i - 1) \o SubSeq(q, i + 1, Len(q))

Suffixes(q) == {SubSeq(q, i, Len(q)) : i \in 1..(Len(q) + 1)}

\* every user action so far
UserActions == used.shows + used.sends + used.clears + used.keyOps

\* Date.now(): time passes with the actions of the user, it never goes backwards
DateNow == UserActions

Init ==
    /\ config \in StoredValues
    /\ html = BlankHtml
    /\ listeners = <<>>
    /\ chatHistory = <<>>
    /\ fetches = <<>>
    /\ calls = <<>>
    /\ prompts = 0
    /\ inbox = <<>>
    /\ outbox = <<>>
    /\ isProcessing = FALSE
    /\ shown = <<>>
    /\ used = [shows |-> 0, keyOps |-> 0, sends |-> 0, clears |-> 0]
    /\ notes = <<>>
    /\ last = [op |-> "activate", init |-> "none", chat |-> "none"]
    /\ orderly = TRUE


\* ------------------------------------------------------------------ initializeWebview
\* the catch block of initializeWebview
InitializeWebviewCatchShowsSetup(error, h, ls) ==
    [html |-> GetNoApiKeyContent, listeners |-> Append(ls, BasicListener),
     notes |-> <<InitFailedNote(error)>>, init |-> "failed"]

InitializeWebviewCatchOpensChat(error, h, ls) ==
    [html |-> GetWebviewContent(<<>>), listeners |-> Append(ls, FullListener(<<"a">>)),
     notes |-> <<InitFailedNote(error)>>, init |-> "failed"]

InitializeWebviewCatch(error, h, ls) ==
    IF error.hasResponse /\ error.status = 401
    THEN [html |-> GetNoApiKeyContent, listeners |-> Append(ls, BasicListener),
          notes |-> <<AuthFailedNote>>, init |-> "auth"]
    ELSE [html |-> h, listeners |-> ls,
          notes |-> <<InitFailedNote(error)>>, init |-> "failed"]

\* initializeWebview from the point where await fetchModels(apiKey) settles
InitializeWebviewResumeMerges(apiKey, answer, h, ls) ==
    LET r == FetchModels(answer) IN
    IF r.ok
    THEN IF r.isArray
         THEN [html |-> GetWebviewContent(h.models \o r.data),
               listeners |-> Append(ls, FullListener(apiKey)),
               notes |-> <<>>, init |-> "ok"]
         ELSE InitializeWebviewCatch(PlainError("models.map is not a function"), h, ls)
    ELSE InitializeWebviewCatch(r.error, h, ls)

InitializeWebviewResume(apiKey, answer, h, ls) ==
    LET r == FetchModels(answer) IN
    IF r.ok
    THEN IF r.isArray
         THEN [html |-> GetWebviewContent(r.data),
               listeners |-> Append(ls, FullListener(apiKey)),
               notes |-> <<>>, init |-> "ok"]
         ELSE InitializeWebviewCatch(PlainError("models.map is not a function"), h, ls)
    ELSE InitializeWebviewCatch(r.error, h, ls)

InitializeWebviewKeepsPage(cfg, h, ls, fs) ==
    LET apiKey == GetApiKey(cfg) IN
    IF ~Truthy(apiKey)
    THEN [html |-> h, listeners |-> Append(ls, BasicListener),
          fetches |-> fs, notes |-> <<>>, init |-> "noKey"]
    ELSE [html |-> h, listeners |-> ls, fetches |-> Append(fs, [apiKey |-> apiKey]),
          notes |-> <<>>, init |-> "fetching"]

\* initializeWebview up to its first suspension: the key is read, and either the
\* welcome page is shown or a GET /chat/models is issued
InitializeWebview(cfg, h, ls, fs) ==
    LET apiKey == GetApiKey(cfg) IN
    IF ~Truthy(apiKey)
    THEN [html |-> GetNoApiKeyContent, listeners |-> Append(ls, BasicListener),
          fetches |-> fs, notes |-> <<>>, init |-> "noKey"]
    ELSE IF FetchModelsRejectsKey(apiKey)
    THEN LET c == InitializeWebviewCatch(PlainError("API key is empty or invalid"), h, ls)
         IN  [html |-> c.html, listeners |-> c.listeners, fetches |-> fs,
              notes |-> c.notes, init |-> c.init]
    ELSE [html |-> h, listeners |-> ls, fetches |-> Append(fs, [apiKey |-> apiKey]),
          notes |-> <<>>, init |-> "fetching"]

\* the setter of webview.html: assigning the value it already holds changes
\* nothing; any other value loads a new document, whose script starts with
\* isProcessing = false and an empty container
LoadHtml(new, h, processing, container) ==
    IF new = h
    THEN [isProcessing |-> processing, shown |-> container, reloaded |-> FALSE]
    ELSE [isProcessing |-> FALSE, shown |-> <<>>, reloaded |-> TRUE]

\* messages posted to the old document and not yet handled die with it or
\* reach the new one
AssignHtml(new) ==
    LET doc == LoadHtml(new, html, isProcessing, shown) IN
    /\ html' = new
    /\ isProcessing' = doc.isProcessing
    /\ shown' = doc.shown
    /\ outbox' \in (IF doc.reloaded THEN Suffixes(outbox) ELSE {outbox})

\* resolveWebviewView: the host hands over a new, empty webview (the panel is
\* shown for the first time, or again after it was disposed)
ResolveWebviewView ==
    /\ UserActions < MaxUserActions
    /\ used' = [used EXCEPT !.shows = @ + 1]
    /\ LET r == InitializeWebview(config, BlankHtml, <<>>, fetches) IN
       /\ html' = r.html
       /\ listeners' = r.listeners
       /\ fetches' = r.fetches
       /\ notes' = r.notes
       /\ last' = [op |-> "resolveWebviewView", init |-> r.init, chat |-> "none"]
    /\ isProcessing' = FALSE
    /\ shown' = <<>>
    /\ inbox' = <<>>
    /\ outbox' = <<>>
    /\ orderly' = (orderly /\ \A k \in 1..Len(inbox) : inbox[k].type # "sendMessage")
    /\ UNCHANGED <<config, chatHistory, calls, prompts>>

\* the command qbraid-chat.setApiKey up to await showInputBox
CmdSetApiKey ==
    /\ UserActions < MaxUserActions
    /\ used' = [used EXCEPT !.keyOps = @ + 1]
    /\ prompts' = prompts + 1
    /\ notes' = <<>>
    /\ last' = [op |-> "cmdSetApiKey", init |-> "none", chat |-> "none"]
    /\ UNCHANGED <<config, html, listeners, chatHistory, fetches, calls, inbox,
                   outbox, isProcessing, shown, orderly>>

AnswerInputBoxReadsFirst(v) ==
    /\ prompts > 0
    /\ prompts' = prompts - 1
    /\ IF Truthy(v)
       THEN /\ config' = v
            /\ IF HasView
               THEN LET r == InitializeWebview(config, html, listeners, fetches) IN
                    /\ AssignHtml(r.html)
                    /\ listeners' = r.listeners
                    /\ fetches' = r.fetches
                    /\ notes' = <<SavedNote>> \o r.notes
                    /\ last' = [op |-> "inputBox", init |-> r.init, chat |-> "none"]
               ELSE /\ notes' = <<SavedNote>>
                    /\ last' = [op |-> "inputBox", init |-> "none", chat |-> "none"]
                    /\ UNCHANGED <<html, listeners, fetches, isProcessing, shown, outbox>>
       ELSE /\ notes' = <<>>
            /\ last' = [op |-> "inputBoxDismissed", init |-> "none", chat |-> "none"]
            /\ UNCHANGED <<config, html, listeners, fetches, isProcessing, shown, outbox>>
    /\ UNCHANGED <<chatHistory, calls, inbox, used, orderly>>

\* the command qbraid-chat.setApiKey from the point where the input box closes
\* with value v: a non-empty v is stored, and the view is initialized again
AnswerInputBox(v) ==
    /\ prompts > 0
    /\ prompts' = prompts - 1
    /\ IF Truthy(v)
       THEN /\ config' = v
            /\ IF HasView
               THEN LET r == InitializeWebview(v, html, listeners, fetches) IN
                    /\ AssignHtml(r.html)
                    /\ listeners' = r.listeners
                    /\ fetches' = r.fetches
                    /\ notes' = <<SavedNote>> \o r.notes
                    /\ last' = [op |-> "inputBox", init |-> r.init, chat |-> "none"]
               ELSE /\ notes' = <<SavedNote>>
                    /\ last' = [op |-> "inputBox", init |-> "none", chat |-> "none"]
                    /\ UNCHANGED <<html, listeners, fetches, isProcessing, shown, outbox>>
       ELSE /\ notes' = <<>>
            /\ last' = [op |-> "inputBoxDismissed", init |-> "none", chat |-> "none"]
            /\ UNCHANGED <<config, html, listeners, fetches, isProcessing, shown, outbox>>
    /\ UNCHANGED <<chatHistory, calls, inbox, used, orderly>>

\* the command qbraid-chat.removeApiKey
CmdRemoveApiKey ==
    /\ UserActions < MaxUserActions
    /\ used' = [used EXCEPT !.keyOps = @ + 1]
    /\ config' = <<>>
    /\ IF HasView
       THEN LET r == InitializeWebview(<<>>, html, listeners, fetches) IN
            /\ AssignHtml(r.html)
            /\ listeners' = r.listeners
            /\ fetches' = r.fetches
            /\ notes' = <<RemovedNote>> \o r.notes
            /\ last' = [op |-> "removeApiKey", init |-> r.init, chat |-> "none"]
       ELSE /\ notes' = <<RemovedNote>>
            /\ last' = [op |-> "removeApiKey", init |-> "none", chat |-> "none"]
            /\ UNCHANGED <<html, listeners, fetches, isProcessing, shown, outbox>>
    /\ UNCHANGED <<chatHistory, calls, prompts, inbox, orderly>>

FetchSettlesForgets(i, answer) ==
    /\ i \in 1..Len(fetches)
    /\ LET r == InitializeWebviewResume(fetches[i].apiKey, answer, html, listeners) IN
       /\ AssignHtml(r.html)
       /\ listeners' = r.listeners
       /\ notes' = r.notes
       /\ last' = [op |-> "fetchSettles", init |-> r.init, chat |-> "none"]
    /\ fetches' = RemoveAt(fetches, i)
    /\ chatHistory' = <<>>
    /\ UNCHANGED <<config, calls, prompts, inbox, used, orderly>>

\* the GET /chat/models of the i-th suspended initializeWebview settles
FetchSettles(i, answer) ==
    /\ i \in 1..Len(fetches)
    /\ LET r == InitializeWebviewResume(fetches[i].apiKey, answer, html, listeners) IN
       /\ AssignHtml(r.html)
       /\ listeners' = r.listeners
       /\ notes' = r.notes
       /\ last' = [op |-> "fetchSettles", init |-> r.init, chat |-> "none"]
    /\ fetches' = RemoveAt(fetches, i)
    /\ UNCHANGED <<config, chatHistory, calls, prompts, inbox, used, orderly>>


\* ------------------------------------------------------------------ handleUserMessage
SnippetLimit == 200

\* vscode.window.activeTextEditor when a message is handled
NoEditor == [present |-> FALSE, languageId |-> <<>>, selection |-> <<>>]

PythonEditor ==
    [present |-> TRUE, languageId |-> <<"python">>,
     selection |-> [i \in 1..(SnippetLimit + 1) |-> "x"]]

\* lengths of the other selections an editor may hold
SelectionLengths == {0, 50, SnippetLimit, SnippetLimit + 50}

\* a selection of n characters, those past the limit told apart from the rest
Selection(n) == [i \in 1..n |-> IF i <= SnippetLimit THEN "s" ELSE "t"]

EditorStates ==
    {NoEditor, PythonEditor}
    \cup {[present |-> TRUE, languageId |-> <<"python">>, selection |-> Selection(n)] :
            n \in SelectionLengths}

ExcerptMarksAtLimit(selectedText) ==
    SubSeq(selectedText, 1, Min(SnippetLimit, Len(selectedText)))
    \o (IF Len(selectedText) >= SnippetLimit THEN <<".", ".", ".">> ELSE <<>>)

\* `${selectedText.slice(0, 200)}${selectedText.length > 200 ? "..." : ""}`
Excerpt(selectedText) ==
    SubSeq(selectedText, 1, Min(SnippetLimit, Len(selectedText)))
    \o (IF Len(selectedText) > SnippetLimit THEN <<".", ".", ".">> ELSE <<>>)

\* the template literal enhancedPrompt: its fixed text around three holes
EnhancedPrompt(editor, text) ==
    LET language == IF editor.present /\ Truthy(editor.languageId)
                    THEN editor.languageId ELSE <<"plaintext">>
        selectedText == IF editor.present /\ Truthy(editor.selection)
                        THEN editor.selection ELSE <<>>
    IN  [language |-> language, code |-> Excerpt(selectedText), question |-> text]

ChatMessageStampsRequest(role, content, timestamp) ==
    [role |-> role, content |-> content,
     timestamp |-> IF role = "assistant" THEN 0 ELSE timestamp]

ChatMessage(role, content, timestamp) ==
    [role |-> role, content |-> content, timestamp |-> timestamp]

\* host -> view messages
UpdateMessages(messages) == [type |-> "updateMessages", messages |-> messages]

ShowTyping == [type |-> "showTyping"]

ErrorEvent == [type |-> "error", message |-> <<"Failed to get response. Please try again.">>]

HistoryCleared == [type |-> "historyCleared"]

\* What a handler run changes: st = [chatHistory, outbox, calls, prompts].
\* handleUserMessage up to await axios.post
HandleUserMessageStoresPrompt(message, apiKey, editor, t, st) ==
    LET prompt == EnhancedPrompt(editor, message.text)
        userMessage == ChatMessage("user", prompt.language \o prompt.code \o prompt.question, t)
    IN  [st EXCEPT
            !.chatHistory = Append(@, userMessage),
            !.outbox = @ \o <<UpdateMessages(<<userMessage>>), ShowTyping>>,
            !.calls = Append(@, [apiKey |-> apiKey, prompt |-> prompt,
                                 model |-> message.model, stream |-> FALSE,
                                 text |-> message.text])]

HandleUserMessageTypingFirst(message, apiKey, editor, t, st) ==
    LET prompt == EnhancedPrompt(editor, message.text)
        userMessage == ChatMessage("user", message.text, t)
    IN  [st EXCEPT
            !.chatHistory = Append(@, userMessage),
            !.outbox = @ \o <<ShowTyping, UpdateMessages(<<userMessage>>)>>,
            !.calls = Append(@, [apiKey |-> apiKey, prompt |-> prompt,
                                 model |-> message.model, stream |-> FALSE,
                                 text |-> message.text])]

HandleUserMessageForgetsUser(message, apiKey, editor, t, st) ==
    LET prompt == EnhancedPrompt(editor, message.text)
        userMessage == ChatMessage("user", message.text, t)
    IN  [st EXCEPT
            !.outbox = @ \o <<UpdateMessages(<<userMessage>>), ShowTyping>>,
            !.calls = Append(@, [apiKey |-> apiKey, prompt |-> prompt,
                                 model |-> message.model, stream |-> FALSE,
                                 text |-> message.text])]

HandleUserMessage(message, apiKey, editor, t, st) ==
    LET prompt == EnhancedPrompt(editor, message.text)
        userMessage == ChatMessage("user", message.text, t)
    IN  [st EXCEPT
            !.chatHistory = Append(@, userMessage),
            !.outbox = @ \o <<UpdateMessages(<<userMessage>>), ShowTyping>>,
            !.calls = Append(@, [apiKey |-> apiKey, prompt |-> prompt,
                                 model |-> message.model, stream |-> FALSE,
                                 text |-> message.text])]

\* the catch block of handleUserMessage
HandleUserMessageCatchAppends(st) ==
    [st EXCEPT !.chatHistory = Append(@, ChatMessage("assistant", ErrorEvent.message, 0)),
               !.outbox = Append(@, ErrorEvent)]

HandleUserMessageCatch(st) == [st EXCEPT !.outbox = Append(@, ErrorEvent)]

\* handleUserMessage from the point where await axios.post settles
HandleUserMessageResumeSilent(answer, t, st) ==
    IF answer.status = 200
    THEN [st EXCEPT !.chatHistory = Append(@, ChatMessage("assistant", answer.content, t))]
    ELSE st

HandleUserMessageResumeOverwrites(answer, t, st) ==
    IF answer.status = 200
    THEN LET assistantMessage == ChatMessage("assistant", answer.content, t) IN
         [st EXCEPT !.chatHistory = <<assistantMessage>>,
                    !.outbox = Append(@, UpdateMessages(<<assistantMessage>>))]
    ELSE HandleUserMessageCatch(st)

HandleUserMessageResumeLeaks(answer, t, st) ==
    IF answer.status = 200
    THEN LET assistantMessage == ChatMessage("assistant", answer.content, t) IN
         [st EXCEPT !.chatHistory = Append(@, assistantMessage),
                    !.outbox = Append(@, UpdateMessages(<<assistantMessage>>))]
    ELSE [st EXCEPT !.outbox = Append(@, [type |-> "error",
                                          message |-> AxiosError(answer.status).message])]

HandleUserMessageResume(answer, t, st) ==
    IF answer.status = 200
    THEN LET assistantMessage == ChatMessage("assistant", answer.content, t) IN
         [st EXCEPT !.chatHistory = Append(@, assistantMessage),
                    !.outbox = Append(@, UpdateMessages(<<assistantMessage>>))]
    ELSE HandleUserMessageCatch(st)

OnBasicMessageIgnores(message, st) == st

\* the listener setupBasicMessageHandlers registers
OnBasicMessage(message, st) ==
    IF message.type = "setApiKey" THEN [st EXCEPT !.prompts = @ + 1] ELSE st

OnChatMessageClearCancels(apiKey, message, editor, t, st) ==
    CASE message.type = "setApiKey" -> [st EXCEPT !.prompts = @ + 1]
      [] message.type = "sendMessage" -> HandleUserMessage(message, apiKey, editor, t, st)
      [] message.type = "clearHistory" ->
            [st EXCEPT !.chatHistory = <<>>, !.calls = <<>>,
                       !.outbox = Append(@, HistoryCleared)]
      [] OTHER -> st

\* the listener setupMessageHandlers(apiKey) registers
OnChatMessage(apiKey, message, editor, t, st) ==
    CASE message.type = "setApiKey" -> [st EXCEPT !.prompts = @ + 1]
      [] message.type = "sendMessage" -> HandleUserMessage(message, apiKey, editor, t, st)
      [] message.type = "clearHistory" ->
            [st EXCEPT !.chatHistory = <<>>, !.outbox = Append(@, HistoryCleared)]
      [] OTHER -> st

\* onDidReceiveMessage fires: every registered listener runs, oldest first
RECURSIVE FireListeners(_, _, _, _, _)
FireListeners(ls, message, editor, t, st) ==
    IF ls = <<>>
    THEN st
    ELSE FireListeners(Tail(ls), message, editor, t,
            IF Head(ls).kind = "full"
            THEN OnChatMessage(Head(ls).apiKey, message, editor, t, st)
            ELSE OnBasicMessage(message, st))

\* the host handles the oldest message the view posted
HostReceives(editor) ==
    /\ inbox # <<>>
    /\ LET message == Head(inbox)
           st == FireListeners(listeners, message, editor, DateNow,
                    [chatHistory |-> chatHistory, outbox |-> outbox,
                     calls |-> calls, prompts |-> prompts])
       IN  /\ chatHistory' = st.chatHistory
           /\ outbox' = st.outbox
           /\ calls' = st.calls
           /\ prompts' = st.prompts
           /\ last' = [op |-> message.type, init |-> "none", chat |-> "none"]
    /\ inbox' = Tail(inbox)
    /\ notes' = <<>>
    /\ UNCHANGED <<config, html, listeners, fetches, isProcessing, shown, used, orderly>>

\* the POST /chat of the i-th suspended handleUserMessage settles
ChatSettles(i, answer) ==
    /\ i \in 1..Len(calls)
    /\ LET st == HandleUserMessageResume(answer, DateNow,
                    [chatHistory |-> chatHistory, outbox |-> outbox,
                     calls |-> RemoveAt(calls, i), prompts |-> prompts])
       IN  /\ chatHistory' = st.chatHistory
           /\ outbox' = st.outbox
           /\ calls' = st.calls
    /\ orderly' = (orderly /\ answer.status = 200)
    /\ notes' = <<>>
    /\ last' = [op |-> "chatSettles", init |-> "none",
                chat |-> IF answer.status = 200 THEN "ok" ELSE "failed"]
    /\ UNCHANGED <<config, html, listeners, fetches, prompts, inbox, isProcessing,
                   shown, used>>


\* ------------------------------------------------------------------ the chat page
\* what modelSelect.value can be: one of the options, "" when there is none
ModelSelectValues == IF html.models = <<>> THEN {""} ELSE Range(html.models)

\* no sendMessage is posted and unhandled, no chat call is outstanding
NoSubmissionPending ==
    /\ calls = <<>>
    /\ \A k \in 1..Len(inbox) : inbox[k].type # "sendMessage"

PageSendMessageUntrimmed(typed, model) ==
    /\ html.kind = "chat"
    /\ UserActions < MaxUserActions
    /\ ~(~Truthy(typed) \/ isProcessing)
    /\ inbox' = Append(inbox, [type |-> "sendMessage", text |-> typed, model |-> model])
    /\ model \in ModelSelectValues
    /\ isProcessing' = TRUE
    /\ used' = [used EXCEPT !.sends = @ + 1]
    /\ orderly' = (orderly /\ NoSubmissionPending)
    /\ notes' = <<>>
    /\ last' = [op |-> "pageSend", init |-> "none", chat |-> "none"]
    /\ UNCHANGED <<config, html, listeners, chatHistory, fetches, calls, prompts,
                   outbox, shown>>

\* sendMessage(), the script of the chat page
PageSendMessage(typed, model) ==
    /\ html.kind = "chat"
    /\ UserActions < MaxUserActions
    /\ LET text == Trim(typed) IN
       /\ ~(~Truthy(text) \/ isProcessing)
       /\ inbox' = Append(inbox, [type |-> "sendMessage", text |-> text, model |-> model])
    /\ model \in ModelSelectValues
    /\ isProcessing' = TRUE
    /\ used' = [used EXCEPT !.sends = @ + 1]
    /\ orderly' = (orderly /\ NoSubmissionPending)
    /\ notes' = <<>>
    /\ last' = [op |-> "pageSend", init |-> "none", chat |-> "none"]
    /\ UNCHANGED <<config, html, listeners, chatHistory, fetches, calls, prompts,
                   outbox, shown>>

\* clearHistory(), confirmed by the user
PageClearHistory ==
    /\ html.kind = "chat"
    /\ UserActions < MaxUserActions
    /\ used' = [used EXCEPT !.clears = @ + 1]
    /\ inbox' = Append(inbox, [type |-> "clearHistory"])
    /\ shown' = <<>>
    /\ notes' = <<>>
    /\ last' = [op |-> "pageClear", init |-> "none", chat |-> "none"]
    /\ UNCHANGED <<config, html, listeners, chatHistory, fetches, calls, prompts,
                   outbox, isProcessing, orderly>>

\* setApiKey(): "Set API Key" on the welcome page, "Change API Key" on the chat page
PageSetApiKey ==
    /\ html.kind \in {"chat", "onboarding"}
    /\ UserActions < MaxUserActions
    /\ used' = [used EXCEPT !.keyOps = @ + 1]
    /\ inbox' = Append(inbox, [type |-> "setApiKey"])
    /\ notes' = <<>>
    /\ last' = [op |-> "pageSetApiKey", init |-> "none", chat |-> "none"]
    /\ UNCHANGED <<config, html, listeners, chatHistory, fetches, calls, prompts,
                   outbox, isProcessing, shown, orderly>>

\* addMessage(msg): marked.parse throws on a content that is not a string,
\* before anything is appended
AddMessageThrows(msg) == ~(msg.content # Undefined)

AddMessage(msg) == [kind |-> "message", role |-> msg.role, content |-> msg.content]

\* the window message listener of the chat page; the welcome page has none
PageReceives ==
    /\ outbox # <<>>
    /\ outbox' = Tail(outbox)
    /\ LET message == Head(outbox) IN
       IF html.kind # "chat"
       THEN UNCHANGED <<isProcessing, shown>>
       ELSE CASE message.type = "updateMessages" ->
                    IF AddMessageThrows(message.messages[1])
                    THEN UNCHANGED <<isProcessing, shown>>
                    ELSE /\ shown' = Append(shown, AddMessage(message.messages[1]))
                         /\ isProcessing' = FALSE
              [] message.type = "showTyping" ->
                    /\ isProcessing' = TRUE
                    /\ UNCHANGED shown
              [] message.type = "error" ->
                    /\ shown' = Append(shown, [kind |-> "error", role |-> "",
                                               content |-> message.message])
                    /\ isProcessing' = FALSE
              [] message.type = "historyCleared" ->
                    /\ shown' = <<>>
                    /\ UNCHANGED isProcessing
    /\ notes' = <<>>
    /\ last' = [op |-> "pageReceives", init |-> "none", chat |-> "none"]
    /\ UNCHANGED <<config, html, listeners, chatHistory, fetches, calls, prompts,
                   inbox, used, orderly>>

\* ------------------------------------------------------------------ specification
Next ==
    \/ ResolveWebviewView
    \/ CmdSetApiKey
    \/ \E v \in InputBoxAnswers : AnswerInputBox(v)
    \/ CmdRemoveApiKey
    \/ \E i \in 1..Len(fetches), answer \in ListAnswers : FetchSettles(i, answer)
    \/ \E typed \in TypedInputs, model \in {"", "m1"} : PageSendMessage(typed, model)
    \/ PageClearHistory
    \/ PageSetApiKey
    \/ \E editor \in EditorStates : HostReceives(editor)
    \/ \E i \in 1..Len(calls), answer \in ChatAnswers : ChatSettles(i, answer)
    \/ PageReceives

Spec == Init /\ [][Next]_vars


\* the event loop of the extension host and of the page handles every posted
\* message; nothing makes the remote service answer
FairSpec ==
    /\ Spec
    /\ WF_vars(PageReceives)
    /\ WF_vars(\E editor \in EditorStates : HostReceives(editor))

\* ------------------------------------------------------------------ mode
\* The code keeps no mode field.  The welcome page (or no page yet) is
\* NoCredential; the chat page is Ready while its input is unlocked and
\* AwaitingResponse while it is locked.
ModeOf(h, processing) ==
    CASE h.kind = "chat" /\ processing -> "AwaitingResponse"
      [] h.kind = "chat" -> "Ready"
      [] OTHER -> "NoCredential"

Mode == ModeOf(html, isProcessing)

\* a step in which initializeWebview starts (reads the key)
InitializeStarts ==
    \/ ResolveWebviewView
    \/ CmdRemoveApiKey /\ HasView
    \/ \E v \in InputBoxAnswers : AnswerInputBox(v) /\ Truthy(v) /\ HasView

SomeHostReceives == \E editor \in EditorStates : HostReceives(editor)

Last(q) == q[Len(q)]

\* ------------------------------------------------------------------ claims

\* C1: when every chat call answered 200, every sendMessage event was posted
\* after the previous one had resolved and nothing was cleared, the history
\* holds exactly two messages per sendMessage event.
C1_TwoPerSubmission ==
    (orderly /\ used.clears = 0 /\ NoSubmissionPending)
        => Len(chatHistory) = 2 * used.sends

C4_AlwaysAnswered == (calls # <<>>) ~> (last.op = "chatSettles")

\* C4 as amended: the assistant render event or the error event is emitted in
\* the step in which the submission's chat call settles.
C4_AnsweredWhenSettled ==
    [][ \A i \in 1..Len(calls) : \A answer \in ChatAnswers :
            ChatSettles(i, answer)
            => /\ Len(outbox') = Len(outbox) + 1
               /\ Last(outbox').type =
                    (IF answer.status = 200 THEN "updateMessages" ELSE "error")
               /\ answer.status = 200 =>
                    Last(outbox').messages = <<Last(chatHistory')>>
      ]_vars

C4_Witness ==
    /\ last.op = "chatSettles"
    /\ outbox # <<>>
    /\ Last(outbox).type \in {"updateMessages", "error"}

\* C5: an Initialize that finds the stored credential absent, empty or blank
\* shows the welcome page (mode NoCredential) and issues no remote call.
C5_NoCredentialNoCall ==
    [][ (InitializeStarts /\ (config' = Undefined \/ Trim(config') = <<>>))
            => /\ html'.kind = "onboarding"
               /\ Mode' = "NoCredential"
               /\ fetches' = fetches
               /\ calls' = calls
      ]_vars

C5_Witness ==
    /\ last.init = "noKey"
    /\ config = <<" ">>
    /\ html.kind = "onboarding"

\* C6: when the list-models call of an Initialize answers 401, the welcome
\* page is shown and exactly the "credential invalid" notification is raised.
C6_AuthFailure ==
    [][ \A i \in 1..Len(fetches) :
            FetchSettles(i, [status |-> 401, isArray |-> FALSE, data |-> <<>>])
            => /\ html'.kind = "onboarding"
               /\ Len(notes') = 1
               /\ notes'[1].items = <<"Update API Key">>
      ]_vars

C8_OtherFailure ==
    [][ \A i \in 1..Len(fetches) : \A answer \in ListAnswers :
            ( /\ FetchSettles(i, answer)
              /\ answer.status # 401
              /\ ~(answer.status = 200 /\ answer.isArray) )
            => /\ html' = html
               /\ Mode' = Mode
               /\ UNCHANGED <<isProcessing, shown, listeners, outbox>>
               /\ notes' =
                    << [kind |-> "error", items |-> <<>>,
                        text |-> <<"Failed to initialize chat: ">> \o
                            (CASE answer.status = 200 -> <<"models.map is not a function">>
                               [] answer.status = 0 -> <<"Network Error">>
                               [] OTHER -> <<"Request failed with status code",
                                             ToString(answer.status)>>)] >>
      ]_vars

C8_Witness ==
    /\ last.op = "fetchSettles" /\ last.init = "failed"
    /\ html.kind = "chat"
    /\ Len(notes) = 1 /\ notes[1].text = <<"Failed to initialize chat: ", "Network Error">>

\* C9: once an Initialize has run to its end, the panel is not blank.
C9_NeverBlank ==
    (last.init \in {"noKey", "ok", "auth", "failed"}) => html.kind # "blank"

\* a whole Initialize against stored value cfg and list-models answer `answer`,
\* started on page h with the input lock at `processing`: the page and lock after
InitializeOutcome(cfg, answer, h, processing) ==
    LET start == InitializeWebview(cfg, h, <<>>, <<>>)
        newHtml == IF start.init = "fetching"
                   THEN InitializeWebviewResume(start.fetches[1].apiKey, answer, h, <<>>).html
                   ELSE start.html
        doc == LoadHtml(newHtml, h, processing, <<>>)
    IN  [html |-> newHtml, isProcessing |-> doc.isProcessing]

\* C10: every Initialize reads the stored credential anew and, when it is not
\* blank, issues a new list-models call with it; a successful one shows the
\* list that call returned; and a second Initialize against the same stored
\* credential and the same answer leaves the page, its model list and the
\* mode as the first left them.
C10_Idempotent ==
    /\ [](\A answer \in ListAnswers :
            LET once == InitializeOutcome(config, answer, html, isProcessing)
                twice == InitializeOutcome(config, answer, once.html, once.isProcessing)
            IN  /\ twice.html = once.html
                /\ ModeOf(twice.html, twice.isProcessing)
                     = ModeOf(once.html, once.isProcessing))
    /\ [][ /\ (InitializeStarts /\ config' # Undefined /\ Trim(config') # <<>>)
                => fetches' = Append(fetches, [apiKey |-> Trim(config')])
           /\ \A i \in 1..Len(fetches) : \A ms \in ModelLists :
                FetchSettles(i, [status |-> 200, isArray |-> TRUE, data |-> ms])
                => html'.models = ms
         ]_vars

C10_Witness ==
    /\ last.op = "fetchSettles" /\ last.init = "ok"
    /\ used.shows = 1 /\ used.keyOps = 1
    /\ html = [kind |-> "chat", models |-> <<"m1">>]
    /\ Len(listeners) = 2
    /\ listeners[1] = [kind |-> "full", apiKey |-> <<"a">>]
    /\ listeners[2] = [kind |-> "full", apiKey |-> <<"a">>]

\* C11 as claimed: handling a clearHistory event empties the history, leaves
\* the stored key, the page and the mode as they are, and posts exactly one
\* historyCleared event.
C11_ClearOnce ==
    [][ (SomeHostReceives /\ Head(inbox).type = "clearHistory")
        => /\ chatHistory' = <<>>
           /\ config' = config /\ html' = html /\ Mode' = Mode
           /\ outbox' = Append(outbox, HistoryCleared)
      ]_vars

\* C12: a clearHistory event handled while chat calls are outstanding empties
\* the history and leaves the calls outstanding; a 200 reply that settles on
\* an empty history is stored as its only message and posted to the page.
C12_ReplyAfterClear ==
    [][ /\ (SomeHostReceives /\ Head(inbox).type = "clearHistory" /\ calls # <<>>)
            => (chatHistory' = <<>> /\ calls' = calls)
        /\ \A i \in 1..Len(calls) : \A answer \in ChatAnswers :
            (ChatSettles(i, answer) /\ answer.status = 200 /\ chatHistory = <<>>)
            => /\ chatHistory' =
                    <<[role |-> "assistant", content |-> answer.content,
                       timestamp |-> DateNow]>>
               /\ outbox' = Append(outbox,
                    [type |-> "updateMessages", messages |-> chatHistory'])
      ]_vars

C12_Witness ==
    /\ used.clears = 1 /\ used.sends = 1
    /\ last.op = "chatSettles" /\ last.chat = "ok"
    /\ Len(chatHistory) = 1
    /\ chatHistory[1].role = "assistant" /\ chatHistory[1].content = <<"c">>
    /\ outbox # <<>> /\ Last(outbox).type = "updateMessages"
    /\ Last(outbox).messages = chatHistory

C14_EmptyRemoves ==
    [][ \A v \in InputBoxAnswers :
          (AnswerInputBox(v) /\ ~Truthy(v))
          => /\ ~Truthy(GetApiKey(config'))
             /\ HasView => Mode' = "NoCredential"
      ]_vars

\* C15: removing the key leaves the store without a usable key and the
\* session in NoCredential, showing the welcome page when there is a panel,
\* whatever the mode was; a chat call that settles later, and the message it
\* posts, change neither the page nor the mode.
C15_RemoveWins ==
    [][ /\ CmdRemoveApiKey
            => /\ ~Truthy(GetApiKey(config'))
               /\ Mode' = "NoCredential"
               /\ HasView => html' = GetNoApiKeyContent
        /\ \A i \in 1..Len(calls) : \A answer \in ChatAnswers :
            ChatSettles(i, answer) => (html' = html /\ Mode' = Mode)
        /\ (PageReceives /\ html.kind = "onboarding") => Mode' = "NoCredential"
      ]_vars

C15_Witness ==
    /\ last.op = "pageReceives"
    /\ html = GetNoApiKeyContent /\ Mode = "NoCredential"
    /\ config = <<>>
    /\ calls = <<>> /\ outbox = <<>>
    /\ Len(chatHistory) = 2 /\ chatHistory[2].role = "assistant"

\* C16 as claimed: at most one chat call is outstanding at any time, and the
\* page posts no sendMessage while a submission is unanswered (its sendMessage
\* not yet handled, or its chat call outstanding).
C16_OneCallOutstanding ==
    /\ [](Len(calls) <= 1)
    /\ [][ \A typed \in TypedInputs : \A model \in {"", "m1"} :
            PageSendMessage(typed, model) => NoSubmissionPending ]_vars

\* C17 as claimed: a 200 answer of the chat call without a content field
\* leaves the history as it is and posts the error event, and the page, on
\* receiving what was posted for it, ends with the input unlocked.
C17_MalformedIsFailure ==
    [][ /\ \A i \in 1..Len(calls) : \A answer \in ChatAnswers :
            (ChatSettles(i, answer) /\ answer.status = 200 /\ answer.content = Undefined)
            => /\ chatHistory' = chatHistory
               /\ outbox' = Append(outbox, ErrorEvent)
        /\ ( /\ PageReceives /\ html.kind = "chat"
             /\ Head(outbox).type = "updateMessages"
             /\ Head(outbox).messages[1].role = "assistant" )
            => Mode' = "Ready"
      ]_vars

\* C18: the code excerpt of the prompt of a chat call is the whole selection
\* when it has at most 200 characters (none or exactly 200 included), and
\* its first 200 characters followed by "..." when it has more.
C18_Excerpt ==
    [][ \A editor \in EditorStates :
          ( /\ HostReceives(editor) /\ Head(inbox).type = "sendMessage"
            /\ Len(calls') > Len(calls) )
          => LET selectedText == IF editor.present THEN editor.selection ELSE <<>>
                 code == Last(calls').prompt.code
             IN  IF Len(selectedText) <= 200
                 THEN code = selectedText
                 ELSE /\ Len(code) = 203
                      /\ \A k \in 1..200 : code[k] = selectedText[k]
                      /\ code[201] = "." /\ code[202] = "." /\ code[203] = "."
      ]_vars

C18_Witness ==
    /\ Len(calls) = 2
    /\ calls[1].prompt.code = SubSeq(Selection(250), 1, 200) \o <<".", ".", ".">>
    /\ calls[2].prompt.code = Selection(200)

\* C19 as claimed: when resolveWebviewView has run (the panel is shown for
\* the first time, or again after it was disposed) the history is empty.
C19_FreshHistory == [][ResolveWebviewView => chatHistory' = <<>>]_vars

\* C20: while the welcome page is shown a listener is registered on the
\* webview, and the host, handling a setApiKey event of the page, starts the
\* setApiKey command (its key input opens).
C20_SetupButtonWorks ==
    /\ [](html.kind = "onboarding" => listeners # <<>>)
    /\ [][ (SomeHostReceives /\ Head(inbox).type = "setApiKey")
           => prompts' > prompts ]_vars

C20_Witness ==
    /\ last.op = "setApiKey"
    /\ html = GetNoApiKeyContent
    /\ listeners = <<BasicListener>>
    /\ inbox = <<>>
    /\ prompts = 1

\* C21: every handleUserMessage run a sendMessage event starts stores its
\* user message, posts the event that renders it and then showTyping, and
\* only then issues its chat call; an assistant message or an error event is
\* posted only by the step in which a chat call settles, after those two.
C21_SubmissionOrder ==
    [][ /\ (SomeHostReceives /\ Head(inbox).type = "sendMessage")
            => LET started == Len(calls') - Len(calls)
                   h == Len(chatHistory)
                   o == Len(outbox)
               IN  /\ Len(chatHistory') = h + started
                   /\ Len(outbox') = o + 2 * started
                   /\ SubSeq(outbox', 1, o) = outbox
                   /\ \A k \in 1..started :
                        /\ chatHistory'[h + k].role = "user"
                        /\ outbox'[o + 2 * k - 1] =
                              [type |-> "updateMessages",
                               messages |-> <<chatHistory'[h + k]>>]
                        /\ outbox'[o + 2 * k] = [type |-> "showTyping"]
        /\ ( /\ Len(outbox') > Len(outbox)
             /\ \/ Last(outbox').type = "error"
                \/ /\ Last(outbox').type = "updateMessages"
                   /\ Last(outbox').messages[1].role = "assistant" )
            => /\ \E i \in 1..Len(calls) : \E answer \in ChatAnswers :
                    ChatSettles(i, answer)
               /\ outbox' = Append(outbox, Last(outbox'))
      ]_vars

C21_Witness ==
    /\ last.op = "chatSettles"
    /\ Len(outbox) = 3 /\ Len(chatHistory) = 2
    /\ outbox[1] = [type |-> "updateMessages", messages |-> <<chatHistory[1]>>]
    /\ chatHistory[1].role = "user"
    /\ outbox[2] = [type |-> "showTyping"]
    /\ outbox[3] = [type |-> "updateMessages", messages |-> <<chatHistory[2]>>]
    /\ chatHistory[2].role = "assistant"
    /\ calls = <<>>

\* C22: every step leaves the history as it is, or appends to it (one message
\* per handleUserMessage run started, one per call settled), or, handling a
\* clearHistory event and only then, empties it; no step removes, reorders
\* or changes a stored message otherwise.
C22_AppendOnly ==
    [][ \/ chatHistory' = chatHistory
        \/ /\ SomeHostReceives /\ Head(inbox).type = "clearHistory"
           /\ chatHistory' = <<>>
        \/ /\ SomeHostReceives /\ Head(inbox).type = "sendMessage"
           /\ Len(chatHistory') = Len(chatHistory) + (Len(calls') - Len(calls))
           /\ SubSeq(chatHistory', 1, Len(chatHistory)) = chatHistory
        \/ /\ \E i \in 1..Len(calls) : \E answer \in ChatAnswers : ChatSettles(i, answer)
           /\ Len(chatHistory') = Len(chatHistory) + 1
           /\ SubSeq(chatHistory', 1, Len(chatHistory)) = chatHistory
      ]_vars

C22_Witness ==
    /\ last.op = "chatSettles" /\ last.chat = "ok"
    /\ Len(chatHistory) = 3
    /\ chatHistory[1].role = "user" /\ chatHistory[2].role = "user"
    /\ chatHistory[3].role = "assistant"

\* C23 as claimed: every chat call is issued with the prompt built from the
\* submission, the model of the submission, stream = false, and the key the
\* store holds (trimmed) when the call is issued.
C23_CurrentCredential ==
    [][ \A editor \in EditorStates :
          (HostReceives(editor) /\ Head(inbox).type = "sendMessage")
          => \A k \in (Len(calls) + 1)..Len(calls') :
                /\ calls'[k].prompt = EnhancedPrompt(editor, Head(inbox).text)
                /\ calls'[k].model = Head(inbox).model
                /\ calls'[k].stream = FALSE
                /\ calls'[k].apiKey = GetApiKey(config)
      ]_vars

\* C24 as claimed: the key an Initialize binds to the chat handlers when its
\* list-models call has settled is the key the store holds at that moment.
C24_AtomicCredential ==
    [][ \A i \in 1..Len(fetches) : \A answer \in ListAnswers :
          (FetchSettles(i, answer) /\ Len(listeners') > Len(listeners)
             /\ Last(listeners').kind = "full")
          => Last(listeners').apiKey = GetApiKey(config)
      ]_vars

\* C25: a chat call that fails leads to the same step whatever the failure
\* is (no response, 401, 500): the history is unchanged and the one event
\* posted is the error event with the fixed text.
C25_UniformFailure ==
    [][ \A i \in 1..Len(calls) : \A a1 \in ChatAnswers :
          (ChatSettles(i, a1) /\ a1.status # 200)
          => /\ \A a2 \in ChatAnswers : a2.status # 200 => ChatSettles(i, a2)
             /\ chatHistory' = chatHistory
             /\ outbox' = Append(outbox,
                   [type |-> "error",
                    message |-> <<"Failed to get response. Please try again.">>])
      ]_vars

C25_Witness ==
    /\ last.op = "chatSettles" /\ last.chat = "failed"
    /\ Len(chatHistory) = 1 /\ chatHistory[1].role = "user"
    /\ outbox # <<>> /\ Last(outbox) = ErrorEvent
    /\ calls = <<>>

\* C26: no step of an Initialize changes the history, and the mode it leaves
\* is the one the stored key, the answer of the list-models call and the
\* page shown before determine, whatever the history holds.
C26_InitializeFrame ==
    [][ /\ (InitializeStarts
              \/ \E i \in 1..Len(fetches) : \E answer \in ListAnswers :
                    FetchSettles(i, answer))
            => chatHistory' = chatHistory
        /\ (InitializeStarts /\ ~Truthy(GetApiKey(config')))
            => Mode' = "NoCredential"
        /\ (InitializeStarts /\ Truthy(GetApiKey(config')) /\ ~ResolveWebviewView)
            => Mode' = Mode
        /\ \A i \in 1..Len(fetches) : \A answer \in ListAnswers :
            FetchSettles(i, answer)
            => LET r == InitializeWebviewResume(fetches[i].apiKey, answer, html, <<>>)
                   doc == LoadHtml(r.html, html, isProcessing, <<>>)
               IN  Mode' = ModeOf(r.html, doc.isProcessing)
      ]_vars

C26_Witness ==
    /\ last.op = "fetchSettles" /\ last.init = "ok"
    /\ used.clears = 1 /\ inbox = <<>>
    /\ chatHistory = <<>>
    /\ Mode = "Ready"

\* C27: the timestamps of the stored messages never decrease along the
\* history.
C27_TimestampsOrdered ==
    \A k \in 1..(Len(chatHistory) - 1) :
        chatHistory[k].timestamp <= chatHistory[k + 1].timestamp

C27_Witness ==
    /\ Len(chatHistory) = 3
    /\ chatHistory[1].role = "user" /\ chatHistory[2].role = "user"
    /\ chatHistory[3].role = "assistant"
    /\ chatHistory[1].timestamp < chatHistory[2].timestamp
    /\ calls # <<>>

\* no chat page, no chat listener, no chat call, no stored message, nothing
\* posted by a chat page
Untouched ==
    /\ Mode = "NoCredential"
    /\ \A k \in 1..Len(listeners) : listeners[k].kind # "full"
    /\ \A k \in 1..Len(inbox) : inbox[k].type = "setApiKey"
    /\ calls = <<>>
    /\ chatHistory = <<>>

\* C28: the session starts in NoCredential with no chat call and an empty
\* history, and stays so in every step that is not the successful end of a
\* list-models call of an Initialize.
C28_NothingBeforeModels ==
    /\ Untouched
    /\ [][ ( /\ Untouched
             /\ ~ \E i \in 1..Len(fetches) : \E ms \in ModelLists :
                    FetchSettles(i, [status |-> 200, isArray |-> TRUE, data |-> ms]) )
           => Untouched' ]_vars

C28_Witness ==
    /\ Untouched
    /\ last.op = "fetchSettles" /\ last.init = "failed"
    /\ used.shows = 1 /\ used.keyOps = 2
    /\ html = GetNoApiKeyContent
    /\ fetches = <<>>

\* C29 as claimed: the host handles each event of the page once: a
\* sendMessage starts one chat call and stores one user message, a
\* clearHistory posts one historyCleared event, a setApiKey starts the
\* setApiKey command once.
C29_ExactlyOnce ==
    [][ SomeHostReceives
        => CASE Head(inbox).type = "sendMessage" ->
                    /\ Len(calls') = Len(calls) + 1
                    /\ Len(chatHistory') = Len(chatHistory) + 1
             [] Head(inbox).type = "clearHistory" ->
                    outbox' = Append(outbox, HistoryCleared)
             [] Head(inbox).type = "setApiKey" ->
                    prompts' = prompts + 1
      ]_vars

\* C30 as claimed: once no list-models call is outstanding, the chat page is
\* shown only if the store holds a key that is not blank.
C30_ViewAgreesWithStore ==
    (fetches = <<>> /\ html.kind = "chat") => Truthy(GetApiKey(config))

\* the number of messages of a role among the first n of the history
CountRole(role, n) == Cardinality({k \in 1..n : chatHistory[k].role = role})

\* every prefix of the history holds at least as many user messages as
\* assistant messages
UserBeforeAssistant ==
    \A n \in 1..Len(chatHistory) : CountRole("assistant", n) <= CountRole("user", n)

\* C31 as claimed: in every reachable state every prefix of the history
\* holds at least as many user messages as assistant messages.
C31_UserBeforeAssistant == UserBeforeAssistant

\* every prefix is balanced, and so is the history with the replies still
\* to come
Balanced ==
    /\ UserBeforeAssistant
    /\ CountRole("assistant", Len(chatHistory)) + Len(calls)
          <= CountRole("user", Len(chatHistory))

\* C31 amended: the history starts balanced, and every step keeps it
\* balanced except the handling of a clearHistory event while a chat call is
\* outstanding.
C31_BalancedUnlessClearedInFlight ==
    /\ Balanced
    /\ [][ ( /\ Balanced
             /\ ~(SomeHostReceives /\ Head(inbox).type = "clearHistory" /\ calls # <<>>) )
           => Balanced' ]_vars

C31_Witness ==
    /\ used.clears = 1 /\ used.sends = 1
    /\ last.op = "chatSettles"
    /\ Len(chatHistory) = 2
    /\ chatHistory[1].role = "user" /\ chatHistory[2].role = "assistant"
    /\ Balanced

\* C32 as claimed: a locked input whose submission has been handled and
\* whose chat calls have all settled is eventually unlocked.
C32_LockReleased == (isProcessing /\ NoSubmissionPending) ~> ~isProcessing

\* the user and assistant messages the chat page displays, in order
RECURSIVE Displayed(_)
Displayed(container) ==
    IF container = <<>>
    THEN <<>>
    ELSE (IF Head(container).kind = "message"
          THEN <<[role |-> Head(container).role, content |-> Head(container).content]>>
          ELSE <<>>) \o Displayed(Tail(container))

\* C33 as claimed: while the chat page is shown and no message is in transit
\* between the page and the host, the messages the page displays are the
\* messages of the history, in the same order.
C33_ViewMatchesHistory ==
    (html.kind = "chat" /\ outbox = <<>> /\ inbox = <<>>)
    => Displayed(shown) =
         [k \in 1..Len(chatHistory) |->
            [role |-> chatHistory[k].role, content |-> chatHistory[k].content]]

\* C34: the page posts a sendMessage only for a text that is not empty after
\* trimming, and posts it trimmed; no stored user message and no chat call
\* has an empty or whitespace-only text.
C34_NoBlankSubmission ==
    /\ [](/\ \A k \in 1..Len(chatHistory) :
                chatHistory[k].role = "user" => Trim(chatHistory[k].content) # <<>>
          /\ \A k \in 1..Len(calls) : Trim(calls[k].text) # <<>>
          /\ \A k \in 1..Len(inbox) :
                inbox[k].type = "sendMessage" => Trim(inbox[k].text) # <<>>)
    /\ [][ \A typed \in TypedInputs : \A model \in {"", "m1"} :
             PageSendMessage(typed, model)
             => /\ Trim(typed) # <<>>
                /\ Last(inbox').text = Trim(typed) ]_vars

C34_Witness ==
    /\ Len(chatHistory) = 1 /\ Len(calls) = 1
    /\ chatHistory[1].content = <<"r">>
    /\ calls[1].text = <<"r">>

\* a key as it may be attached to a request: not undefined, not empty, no
\* blank at either end
Sendable(key) == key # Undefined /\ key # <<>> /\ Trim(key) = key

\* C35: the key of a list-models call is the stored value, trimmed, and is
\* not blank; the key a chat listener is bound to is the key of the
\* list-models call of its Initialize, and the key of a chat call is the key
\* of a registered chat listener; no other key is attached to a request.
C35_TrimmedCredential ==
    /\ [](/\ \A k \in 1..Len(fetches) : Sendable(fetches[k].apiKey)
          /\ \A k \in 1..Len(calls) : Sendable(calls[k].apiKey)
          /\ \A k \in 1..Len(listeners) :
                listeners[k].kind = "full" => Sendable(listeners[k].apiKey))
    /\ [][ /\ Len(fetches') > Len(fetches)
               => /\ fetches' = Append(fetches, [apiKey |-> Trim(config')])
                  /\ Trim(config') # <<>>
           /\ \A i \in 1..Len(fetches) : \A answer \in ListAnswers :
                (FetchSettles(i, answer) /\ Len(listeners') > Len(listeners)
                    /\ Last(listeners').kind = "full")
                => Last(listeners').apiKey = fetches[i].apiKey
           /\ \A k \in (Len(calls) + 1)..Len(calls') :
                \E j \in 1..Len(listeners) :
                    /\ listeners[j].kind = "full"
                    /\ listeners[j].apiKey = calls'[k].apiKey
         ]_vars

C35_Witness ==
    /\ config = <<" ", "b">>
    /\ Len(calls) = 1 /\ calls[1].apiKey = <<"b">>
    /\ listeners = <<[kind |-> "full", apiKey |-> <<"b">>]>>

====
